---- MODULE Spec2Model ----
(***************************************************************************)
(* Model of extensions/diagmagic.py: the BlockdiagMagics cell magics       *)
(* (%%actdiag, %%blockdiag, %%nwdiag, %%seqdiag), the shared diag routine  *)
(* with its temporary directory, the cached inkscape probe, and the two    *)
(* mode toggles %setdiagsvg / %setdiagpng over the module globals          *)
(* _draw_mode, _publish_mode and _inkscape_available.                      *)
(*                                                                         *)
(* diag is modelled statement group by statement group (pc), so that the   *)
(* order of its effects and the exception paths through try/finally are    *)
(* visible.  External programs (the renderer, inkscape) and the file       *)
(* system are the environment: their outcomes are nondeterministic.        *)
(***************************************************************************)
EXTENDS Naturals, FiniteSets, Sequences

VARIABLES
    _draw_mode,           \* module global, line 45
    _publish_mode,        \* module global, line 46
    _inkscape_available,  \* module global, line 48: "None", "True", "False"
    installed,            \* environment: an inkscape executable is on the path
    pc,                   \* position of the running diag call, "idle" if none
    cell,                 \* argument of the current / last diag call
    code,                 \* local code of diag (line 91), as <<cell, newline>>
    command,              \* renderer module passed to the current / last diag call
    tmpdir,               \* local tmpdir of diag: "unbound" or "bound"
    dirExists,            \* the directory made by mkdtemp exists on disk
    files,                \* names of the files in that directory
    format,               \* local format of diag (line 104)
    argv,                 \* local argv of diag handed to command.main (line 108)
    file_name,            \* local file_name of diag (line 125)
    data,                 \* local data of diag (line 127)
    exc,                  \* exception propagating out of the try block
    result,               \* how the last diag call ended: "none", "returned", "raised"
    done,                 \* steps the current / last diag call has performed
    asked,                \* output files the external tools were asked to write
    lastRun,              \* what the last run_command did
    probeRuns,            \* how often the probe command was executed
    probeOutcome,         \* outcome of the executed probe command
    publishArgs,          \* positional arguments of the publish_display_data call
    published,            \* MIME type the display system accepted, "none" if nothing
    publishCalls,         \* publish_display_data calls made by the current / last diag
    ops,                  \* the last two handlers that were started
    diagCalls,            \* number of diag calls started (counted up to MaxCounted)
    tpc,                  \* position of each concurrently running toggle magic
    raced                 \* some step ran while another handler was in progress

vars == <<_draw_mode, _publish_mode, _inkscape_available, installed, pc, cell,
          code, command, tmpdir, dirExists, files, format, argv, file_name, data, exc,
          result, done, asked, lastRun, probeRuns, probeOutcome, publishArgs,
          published, publishCalls, ops, diagCalls, tpc, raced>>

\* Counters of the model stop counting here.
MaxCounted == 2

Modes == {"PNG", "SVG"}
CellTexts == {"", "{ A -> B; }"}
\* Cells that may run a toggle magic concurrently with a diag.
Togglers == {"cellA", "cellB"}

\* Files of the temporary directory: diag_name, diag_name + '.svg',
\* diag_name + '.png', and anything else a tool leaves behind.
diag_name == "diag_name"
OtherFile == "other"

\* str.lower() on the two mode names (lines 104, 125)
Lower(mode) == CASE mode = "SVG" -> "svg"
                 [] mode = "PNG" -> "png"
                 [] OTHER -> mode

\* Python values passed to publish_display_data
PyNone == [kind |-> "none", val |-> ""]
PyStr(s) == [kind |-> "str", val |-> s]
PyDict(mime) == [kind |-> "dict", val |-> mime]

Count(n) == IF n < MaxCounted THEN n + 1 ELSE MaxCounted
Push(seq, op) == IF Len(seq) < 2 THEN Append(seq, op) ELSE <<seq[2], op>>

NoRun == [cmd |-> "none", outcome |-> "none", ret |-> FALSE, stderr |-> FALSE, stdout |-> FALSE]

\* Some other handler is in the middle of its body.
OthersBusy(t) == \E u \in Togglers : u # t /\ tpc[u] # "idle"

Init ==
    /\ _draw_mode = "PNG"
    /\ _publish_mode = "PNG"
    /\ _inkscape_available = "None"
    /\ installed \in BOOLEAN
    /\ pc = "idle"
    /\ cell = ""
    /\ code = <<>>
    /\ command = "blockdiag.command"
    /\ tmpdir = "unbound"
    /\ dirExists = FALSE
    /\ files = {}
    /\ format = "none"
    /\ argv = <<>>
    /\ file_name = "none"
    /\ data = "unset"
    /\ exc = "none"
    /\ result = "none"
    /\ done = {}
    /\ asked = {}
    /\ lastRun = NoRun
    /\ probeRuns = 0
    /\ probeOutcome = "none"
    /\ publishArgs = <<>>
    /\ published = "none"
    /\ publishCalls = 0
    /\ ops = <<>>
    /\ diagCalls = 0
    /\ tpc = [t \in Togglers |-> "idle"]
    /\ raced = FALSE

----------------------------------------------------------------------------
(* The environment: external commands.                                     *)

\* What starting an inkscape process can do: the executable is missing
\* (OSError from subprocess.call), or it runs and exits with some code.
InkscapeOutcomes == IF installed THEN {"exit0", "nonzero"} ELSE {"missing"}

\* run_command (lines 59-77).  subprocess.call returns the exit code and
\* never raises CalledProcessError, so every completed run returns True
\* without printing; only OSError reaches a handler, which prints to
\* sys.stdout and falls through to return False.
run_command(cmd, outcome) ==
    [cmd |-> cmd, outcome |-> outcome,
     ret |-> (outcome # "missing"),
     stderr |-> FALSE,
     stdout |-> (outcome = "missing")]

\* inkscape_available (lines 79-83): the guard of the probe.
NeedProbeFalsy == _inkscape_available \in {"None", "False"}
NeedProbe == _inkscape_available = "None"

PyBool(b) == IF b THEN "True" ELSE "False"

----------------------------------------------------------------------------
(* The mode toggles, run by the host one handler at a time.                *)

Sequential == pc = "idle" /\ \A t \in Togglers : tpc[t] = "idle"

ToggleFrame ==
    UNCHANGED <<_inkscape_available, installed, pc, cell, code, command, tmpdir,
                dirExists, files, format, argv, file_name, data, exc, result,
                done, asked, lastRun, probeRuns, probeOutcome, publishArgs,
                published, publishCalls, diagCalls>>

setdiagsvgPublishOnly ==
    /\ Sequential
    /\ _publish_mode' = "SVG"
    /\ ops' = Push(ops, "setdiagsvg")
    /\ UNCHANGED <<_draw_mode, tpc, raced>>
    /\ ToggleFrame

\* setdiagsvg (lines 168-171)
setdiagsvg ==
    /\ Sequential
    /\ _draw_mode' = "SVG"
    /\ _publish_mode' = "SVG"
    /\ ops' = Push(ops, "setdiagsvg")
    /\ UNCHANGED <<tpc, raced>>
    /\ ToggleFrame

setdiagpngPublishOnly ==
    /\ Sequential
    /\ _publish_mode' = "PNG"
    /\ ops' = Push(ops, "setdiagpng")
    /\ UNCHANGED <<_draw_mode, tpc, raced>>
    /\ ToggleFrame

\* setdiagpng (lines 173-176)
setdiagpng ==
    /\ Sequential
    /\ _draw_mode' = "PNG"
    /\ _publish_mode' = "PNG"
    /\ ops' = Push(ops, "setdiagpng")
    /\ UNCHANGED <<tpc, raced>>
    /\ ToggleFrame

----------------------------------------------------------------------------
(* The renderer magics and diag.                                           *)

DiagRaced == raced \/ \E t \in Togglers : tpc[t] # "idle"

\* diag, entry (lines 89-91): the call starts with fresh locals.
diag(line, c, cmd) ==
    /\ pc = "idle"
    /\ pc' = "probe"
    /\ cell' = c
    /\ code' = <<c, "\n">>
    /\ command' = cmd
    /\ tmpdir' = "unbound"
    /\ format' = "none"
    /\ argv' = <<>>
    /\ file_name' = "none"
    /\ data' = "unset"
    /\ exc' = "none"
    /\ result' = "none"
    /\ done' = {}
    /\ asked' = {}
    /\ publishArgs' = <<>>
    /\ published' = "none"
    /\ publishCalls' = 0
    /\ ops' = Push(ops, "diag")
    /\ diagCalls' = Count(diagCalls)
    /\ raced' = DiagRaced
    /\ UNCHANGED <<_draw_mode, _publish_mode, _inkscape_available, installed,
                   dirExists, files, lastRun, probeRuns, probeOutcome, tpc>>

\* actdiag (lines 148-151)
actdiag == \E c \in CellTexts : diag("", c, "actdiag.command")

\* blockdiag (lines 153-156)
blockdiag == \E c \in CellTexts : diag("", c, "blockdiag.command")

\* nwdiag (lines 158-161)
nwdiag == \E c \in CellTexts : diag("", c, "nwdiag.command")

\* seqdiag (lines 163-166)
seqdiag == \E c \in CellTexts : diag("", c, "seqdiag.command")

\* The assignment of lines 94-95, as the pair of globals it leaves.
SwitchPublishMode(avail) ==
    IF avail = "True" THEN <<_draw_mode, "SVG">> ELSE <<_draw_mode, _publish_mode>>
SwitchDrawMode(avail) ==
    IF avail = "True" THEN <<"SVG", _publish_mode>> ELSE <<_draw_mode, _publish_mode>>

\* diag, lines 93-95: self.inkscape_available() (lines 79-83), which runs
\* the probe through run_command when nothing is cached, then the switch
\* of _draw_mode.
InkscapeProbe ==
    /\ pc = "probe"
    /\ \/ /\ NeedProbe
          /\ \E outcome \in InkscapeOutcomes :
                /\ lastRun' = run_command("probe", outcome)
                /\ probeOutcome' = outcome
          /\ _inkscape_available' = PyBool(lastRun'.ret)
          /\ probeRuns' = Count(probeRuns)
       \/ /\ ~NeedProbe
          /\ UNCHANGED <<_inkscape_available, lastRun, probeOutcome, probeRuns>>
    /\ _draw_mode' = SwitchDrawMode(_inkscape_available')[1]
    /\ _publish_mode' = SwitchDrawMode(_inkscape_available')[2]
    /\ done' = done \cup (IF _inkscape_available' = "True" THEN {"switch"} ELSE {})
                    \cup {"probe"}
    /\ pc' = "mkdtemp"
    /\ raced' = DiagRaced
    /\ UNCHANGED <<installed, cell, code, command, tmpdir, dirExists, files, format,
                   argv, file_name, data, exc, result, asked, publishArgs,
                   published, publishCalls, ops, diagCalls, tpc>>

\* diag, line 98: tempfile.mkdtemp() makes the directory, or raises and
\* leaves tmpdir unbound.
Mkdtemp ==
    /\ pc = "mkdtemp"
    /\ \/ /\ tmpdir' = "bound"
          /\ dirExists' = TRUE
          /\ files' = {}
          /\ done' = done \cup {"mkdtemp"}
          /\ pc' = "write"
          /\ UNCHANGED exc
       \/ /\ exc' = "OSError"
          /\ pc' = "finally"
          /\ UNCHANGED <<tmpdir, dirExists, files, done>>
    /\ raced' = DiagRaced
    /\ UNCHANGED <<_draw_mode, _publish_mode, _inkscape_available, installed,
                   cell, code, command, format, argv, file_name, data, result, asked,
                   lastRun, probeRuns, probeOutcome, publishArgs, published,
                   publishCalls, ops, diagCalls, tpc>>

\* diag, lines 99-102: mkstemp in the directory, write the code, close.
\* mkstemp may fail before the file exists; the write may fail after.
WriteCode ==
    /\ pc = "write"
    /\ \/ /\ files' = files \cup {diag_name}
          /\ done' = done \cup {"write"}
          /\ pc' = "render"
          /\ UNCHANGED exc
       \/ /\ files' \in {files, files \cup {diag_name}}
          /\ exc' = "OSError"
          /\ pc' = "finally"
          /\ UNCHANGED done
    /\ raced' = DiagRaced
    /\ UNCHANGED <<_draw_mode, _publish_mode, _inkscape_available, installed,
                   cell, code, command, tmpdir, dirExists, format, argv, file_name,
                   data, result, asked, lastRun, probeRuns, probeOutcome,
                   publishArgs, published, publishCalls, ops, diagCalls, tpc>>

\* diag, lines 104-119: build argv from _draw_mode and call command.main.
\* The renderer writes draw_name, or reports an error and writes nothing,
\* or raises; it may leave another file behind in each case.
Render ==
    /\ pc = "render"
    /\ format' = Lower(_draw_mode)
    /\ LET draw_name == diag_name \o "." \o format'
       IN /\ argv' = <<diag_name, "-T", format', "-o", draw_name>>
                      \o (IF _draw_mode = "SVG" THEN <<"">> ELSE <<>>)
          /\ asked' = asked \cup {draw_name}
          /\ \E left \in SUBSET {OtherFile} :
                \/ /\ files' = files \cup {draw_name} \cup left
                   /\ pc' = "convert"
                   /\ UNCHANGED exc
                \/ /\ files' = files \cup left
                   /\ pc' = "convert"
                   /\ UNCHANGED exc
                \/ /\ files' = files \cup left
                   /\ exc' = "RendererError"
                   /\ pc' = "finally"
    /\ done' = done \cup {"render"}
    /\ raced' = DiagRaced
    /\ UNCHANGED <<_draw_mode, _publish_mode, _inkscape_available, installed,
                   cell, code, command, tmpdir, dirExists, file_name, data, result,
                   lastRun, probeRuns, probeOutcome, publishArgs, published,
                   publishCalls, ops, diagCalls, tpc>>

\* svg2png (lines 85-87): inkscape through run_command; the return value
\* of run_command is dropped.  A successful run writes the .png when its
\* input exists.
svg2png(filename) ==
    \E outcome \in InkscapeOutcomes :
        /\ lastRun' = run_command("svg2png", outcome)
        /\ files' = IF outcome = "exit0" /\ (filename \o ".svg") \in files
                    THEN files \cup {filename \o ".png"}
                    ELSE files
        /\ asked' = asked \cup {filename \o ".png"}

\* The condition of line 121.
ConvertNeeded == _draw_mode = "SVG" /\ _publish_mode = "PNG"

\* diag, lines 121-123
Convert ==
    /\ pc = "convert"
    /\ \/ /\ ConvertNeeded
          /\ svg2png(diag_name)
          /\ done' = done \cup {"convert"}
       \/ /\ ~ConvertNeeded
          /\ UNCHANGED <<lastRun, files, asked, done>>
    /\ pc' = "read"
    /\ raced' = DiagRaced
    /\ UNCHANGED <<_draw_mode, _publish_mode, _inkscape_available, installed,
                   cell, code, command, tmpdir, dirExists, format, argv, file_name,
                   data, exc, result, probeRuns, probeOutcome, publishArgs,
                   published, publishCalls, ops, diagCalls, tpc>>

ReadFrame ==
    /\ raced' = DiagRaced
    /\ UNCHANGED <<_draw_mode, _publish_mode, _inkscape_available, installed,
                   cell, code, command, tmpdir, dirExists, files, format, argv,
                   result, asked, lastRun, probeRuns, probeOutcome, publishArgs,
                   published, publishCalls, ops, diagCalls, tpc>>

ReadOutputRetry ==
    /\ pc = "read"
    /\ file_name' = diag_name \o "." \o Lower(_publish_mode)
    /\ \/ /\ file_name' \in files
          /\ data' = "bytes"
          /\ done' = done \cup {"read"}
          /\ pc' = "finally"
          /\ UNCHANGED exc
       \/ /\ file_name' \notin files
          /\ pc' = "render"
          /\ UNCHANGED <<data, done, exc>>
    /\ ReadFrame

ReadOutputThenPublish ==
    /\ pc = "read"
    /\ file_name' = diag_name \o "." \o Lower(_publish_mode)
    /\ \/ /\ file_name' \in files
          /\ data' = "bytes"
          /\ done' = done \cup {"read"}
          /\ pc' = "publish"
          /\ UNCHANGED exc
       \/ /\ file_name' \notin files
          /\ exc' = "IOError"
          /\ pc' = "finally"
          /\ UNCHANGED <<data, done>>
    /\ ReadFrame

\* diag, lines 125-128: open and read the file named after _publish_mode;
\* io.open raises IOError when it does not exist.
ReadOutput ==
    /\ pc = "read"
    /\ file_name' = diag_name \o "." \o Lower(_publish_mode)
    /\ \/ /\ file_name' \in files
          /\ data' = "bytes"
          /\ done' = done \cup {"read"}
          /\ pc' = "finally"
          /\ UNCHANGED exc
       \/ /\ file_name' \notin files
          /\ exc' = "IOError"
          /\ pc' = "finally"
          /\ UNCHANGED <<data, done>>
    /\ ReadFrame

FinallyFrame ==
    /\ raced' = DiagRaced
    /\ UNCHANGED <<_draw_mode, _publish_mode, _inkscape_available, installed,
                   cell, code, command, tmpdir, format, argv, file_name, data, asked,
                   lastRun, probeRuns, probeOutcome, publishArgs, published,
                   publishCalls, ops, diagCalls, tpc>>

FinallyCleanupOnSuccess ==
    /\ pc = "finally"
    /\ \/ /\ exc = "none"
          /\ files' = {}
          /\ dirExists' = FALSE
          /\ done' = done \cup {"rmdir"}
          /\ pc' = "publish"
          /\ UNCHANGED <<exc, result>>
       \/ /\ exc # "none"
          /\ pc' = "idle"
          /\ result' = "raised"
          /\ UNCHANGED <<files, dirExists, done, exc>>
    /\ FinallyFrame

\* diag, lines 130-133: the finally block unlinks every listed file and
\* removes the directory, then the pending exception (if any) propagates.
\* With tmpdir unbound, os.listdir(tmpdir) raises UnboundLocalError.
FinallyCleanup ==
    /\ pc = "finally"
    /\ \/ /\ tmpdir = "bound"
          /\ files' = {}
          /\ dirExists' = FALSE
          /\ done' = done \cup {"rmdir"}
          /\ \/ /\ exc = "none"
                /\ pc' = "publish"
                /\ UNCHANGED result
             \/ /\ exc # "none"
                /\ pc' = "idle"
                /\ result' = "raised"
          /\ UNCHANGED exc
       \/ /\ tmpdir = "unbound"
          /\ exc' = "UnboundLocalError"
          /\ pc' = "idle"
          /\ result' = "raised"
          /\ UNCHANGED <<files, dirExists, done>>
    /\ FinallyFrame

\* publish_display_data of IPython.core.displaypub (imported at line 43),
\* called positionally as (data, metadata, source): a dict of MIME type
\* to payload is published, anything else is rejected with TypeError.
publish_display_data(args) ==
    IF args[1].kind = "dict" THEN args[1].val ELSE "TypeError"

\* diag, lines 135-146: the two calls, with their arguments in the order
\* the source passes them.
Publish ==
    /\ pc = "publish"
    /\ publishArgs' =
         IF _publish_mode = "SVG"
         THEN <<PyStr("IPython.core.displaypub.publish_svg"), PyNone,
                PyDict("image/svg+xml")>>
         ELSE <<PyDict("image/png"), PyNone,
                PyStr("IPython.core.displaypub.publish_png")>>
    /\ publishCalls' = Count(publishCalls)
    /\ done' = done \cup {"publish"}
    /\ LET r == publish_display_data(publishArgs')
       IN IF r = "TypeError"
          THEN /\ exc' = "TypeError"
               /\ result' = "raised"
               /\ UNCHANGED published
          ELSE /\ published' = r
               /\ result' = "returned"
               /\ UNCHANGED exc
    /\ pc' = "idle"
    /\ raced' = DiagRaced
    /\ UNCHANGED <<_draw_mode, _publish_mode, _inkscape_available, installed,
                   cell, code, command, tmpdir, dirExists, files, format, argv,
                   file_name, data, asked, lastRun, probeRuns, probeOutcome,
                   ops, diagCalls, tpc>>

\* The steps of a diag call that is under way.
DiagStep ==
    \/ InkscapeProbe
    \/ Mkdtemp
    \/ WriteCode
    \/ Render
    \/ Convert
    \/ ReadOutput
    \/ FinallyCleanup
    \/ Publish

Next ==
    \/ setdiagsvg
    \/ setdiagpng
    \/ actdiag
    \/ blockdiag
    \/ nwdiag
    \/ seqdiag
    \/ InkscapeProbe
    \/ Mkdtemp
    \/ WriteCode
    \/ Render
    \/ Convert
    \/ ReadOutput
    \/ FinallyCleanup
    \/ Publish

\* The host runs one cell at a time (spec section 5).
Spec == Init /\ [][Next]_vars

\* A handler that was started keeps executing: the interpreter runs it
\* synchronously to its end.
LiveSpec == Spec /\ WF_vars(DiagStep)

----------------------------------------------------------------------------
(* Concurrent cell executions (spec section 5): the toggles are not        *)
(* atomic.  _draw_mode = _publish_mode = X stores _draw_mode first and     *)
(* _publish_mode second, and other handlers may run in between.            *)

ToggleRaced(t) == raced \/ pc # "idle" \/ OthersBusy(t)

\* setdiagsvg, line 171, first store
SvgStoreDraw(t) ==
    /\ tpc[t] = "idle"
    /\ _draw_mode' = "SVG"
    /\ tpc' = [tpc EXCEPT ![t] = "svg"]
    /\ ops' = Push(ops, "setdiagsvg")
    /\ raced' = ToggleRaced(t)
    /\ UNCHANGED _publish_mode
    /\ ToggleFrame

\* setdiagsvg, line 171, second store
SvgStorePublish(t) ==
    /\ tpc[t] = "svg"
    /\ _publish_mode' = "SVG"
    /\ tpc' = [tpc EXCEPT ![t] = "idle"]
    /\ raced' = ToggleRaced(t)
    /\ UNCHANGED <<_draw_mode, ops>>
    /\ ToggleFrame

\* setdiagpng, line 176, first store
PngStoreDraw(t) ==
    /\ tpc[t] = "idle"
    /\ _draw_mode' = "PNG"
    /\ tpc' = [tpc EXCEPT ![t] = "png"]
    /\ ops' = Push(ops, "setdiagpng")
    /\ raced' = ToggleRaced(t)
    /\ UNCHANGED _publish_mode
    /\ ToggleFrame

\* setdiagpng, line 176, second store
PngStorePublish(t) ==
    /\ tpc[t] = "png"
    /\ _publish_mode' = "PNG"
    /\ tpc' = [tpc EXCEPT ![t] = "idle"]
    /\ raced' = ToggleRaced(t)
    /\ UNCHANGED <<_draw_mode, ops>>
    /\ ToggleFrame

NextConc ==
    \/ \E t \in Togglers : SvgStoreDraw(t)
    \/ \E t \in Togglers : SvgStorePublish(t)
    \/ \E t \in Togglers : PngStoreDraw(t)
    \/ \E t \in Togglers : PngStorePublish(t)
    \/ actdiag
    \/ blockdiag
    \/ nwdiag
    \/ seqdiag
    \/ InkscapeProbe
    \/ Mkdtemp
    \/ WriteCode
    \/ Render
    \/ Convert
    \/ ReadOutput
    \/ FinallyCleanup
    \/ Publish

\* The host lets cells run concurrently.
SpecConc == Init /\ [][NextConc]_vars

----------------------------------------------------------------------------
(* Properties.                                                             *)

Last(seq) == seq[Len(seq)]
LastOpIs(op) == ops # <<>> /\ Last(ops) = op
TogglersIdle == \A t \in Togglers : tpc[t] = "idle"

\* The current / last diag call has not been followed by a toggle.
DiagIsLatest == LastOpIs("diag")

\* C1: right after setdiagpng both flags are 'PNG' and right after
\* setdiagsvg both flags are 'SVG', whatever they were before; so
\* setdiagsvg followed by setdiagpng leaves both flags 'PNG'.
C1_ToggleSetsBothFlags ==
    /\ LastOpIs("setdiagpng") => (_draw_mode = "PNG" /\ _publish_mode = "PNG")
    /\ LastOpIs("setdiagsvg") => (_draw_mode = "SVG" /\ _publish_mode = "SVG")

C1_SvgThenPng ==
    /\ ops = <<"setdiagsvg", "setdiagpng">>
    /\ _draw_mode = "PNG"
    /\ _publish_mode = "PNG"

\* C2: whenever a diag call has returned or raised, the temporary
\* directory it created no longer exists.
C2_TmpdirRemoved ==
    pc = "idle" => (~dirExists /\ files = {})

C2_RemovedAfterFailure ==
    /\ pc = "idle"
    /\ result = "raised"
    /\ exc \in {"IOError", "RendererError"}
    /\ "mkdtemp" \in done
    /\ "render" \in done
    /\ ~dirExists

\* C3: the probe command runs at most once; its result is stored in
\* _inkscape_available by the first call and every later call leaves
\* both the stored value and the number of probe runs alone.
C3_ProbeOnce ==
    /\ [](probeRuns <= 1)
    /\ []((_inkscape_available = "None") <=> (probeRuns = 0))
    /\ [](_inkscape_available # "None" =>
             _inkscape_available = PyBool(probeOutcome # "missing"))
    /\ [][_inkscape_available # "None" =>
             /\ _inkscape_available' = _inkscape_available
             /\ probeRuns' = probeRuns]_vars

C3_SecondCallReusesProbe ==
    /\ diagCalls >= 2
    /\ "probe" \in done
    /\ probeRuns = 1

\* C4: a renderer magic invoked with empty cell text terminates: the call
\* returns or raises to the host.
C4_EmptyCellReturns ==
    (pc # "idle" /\ cell = "") ~> (pc = "idle" /\ result \in {"returned", "raised"})

C4_EmptyCellFinished ==
    /\ pc = "idle"
    /\ cell = ""
    /\ code = <<"", "\n">>
    /\ result \in {"returned", "raised"}

\* C5: inkscape is detected as available only when the probe command
\* exits with success; after a probe that exits non-zero or cannot be
\* started, _inkscape_available is false and diag does not switch the
\* draw mode.
C5_AvailableOnlyOnSuccess ==
    probeOutcome \in {"nonzero", "missing"} =>
        (_inkscape_available = "False" /\ "switch" \notin done)

\* C6: a run_command whose command exits non-zero or whose executable is
\* missing returns false and prints a diagnostic to standard error.
C6_FailureReported ==
    lastRun.outcome \in {"nonzero", "missing"} =>
        (lastRun.ret = FALSE /\ lastRun.stderr = TRUE)

\* C7: a diag call that reaches the publish step publishes under
\* image/png when the publish mode is 'PNG' (rendered as svg and converted
\* by inkscape when inkscape is available, rendered as png without the
\* converter when it is not and the draw mode is 'PNG'), and under
\* image/svg+xml without the converter when the publish mode is 'SVG'.
C7_PublishedMime ==
    (pc = "idle" /\ DiagIsLatest /\ "publish" \in done) =>
        /\ _publish_mode = "PNG" =>
              /\ published = "image/png"
              /\ installed => (argv[3] = "svg" /\ "convert" \in done)
              /\ (~installed /\ _draw_mode = "PNG") =>
                    (argv[3] = "png" /\ "convert" \notin done)
        /\ _publish_mode = "SVG" =>
              /\ published = "image/svg+xml"
              /\ "convert" \notin done

\* C8: within one diag call the steps happen in the order mkdtemp, write,
\* render, convert (only with draw mode 'SVG' and publish mode 'PNG'),
\* read, removal of the directory, publish; the display callback is called
\* at most once, only after a successful read and only after the directory
\* is gone.
C8_StepOrder ==
    /\ "write" \in done => "mkdtemp" \in done
    /\ "render" \in done => "write" \in done
    /\ "convert" \in done => "render" \in done
    /\ "read" \in done => "render" \in done
    /\ "rmdir" \in done => "mkdtemp" \in done
    /\ "publish" \in done => ("read" \in done /\ "rmdir" \in done)
    /\ pc \in {"write", "render", "convert", "read"} =>
          (dirExists /\ "rmdir" \notin done /\ "publish" \notin done)
    /\ pc \in {"write", "render", "convert"} => "read" \notin done
    /\ pc \in {"write", "render"} => "convert" \notin done
    /\ pc = "write" => "render" \notin done
    /\ (DiagIsLatest /\ ("read" \in done \/ pc = "read")) =>
          ("convert" \in done <=> (_draw_mode = "SVG" /\ _publish_mode = "PNG"))
    /\ pc = "publish" =>
          (~dirExists /\ "read" \in done /\ data = "bytes" /\ publishCalls = 0)
    /\ "publish" \in done <=> publishCalls = 1
    /\ publishCalls <= 1

C8_PublishedAfterAllSteps ==
    /\ pc = "idle"
    /\ done = {"probe", "switch", "mkdtemp", "write", "render", "convert",
               "read", "rmdir", "publish"}
    /\ publishCalls = 1

\* C9: the flag combination _draw_mode = 'PNG' with _publish_mode = 'SVG'
\* between toggles, and a diag whose draw mode differs from the format it
\* gave the renderer, occur under concurrent cells, and only when handlers
\* have interleaved.
C9_OnlyByInterleaving ==
    /\ (TogglersIdle /\ _draw_mode = "PNG" /\ _publish_mode = "SVG") => raced
    /\ (pc \in {"convert", "read"} /\ format # Lower(_draw_mode)) => raced

C9_RacyFlags ==
    /\ TogglersIdle
    /\ _draw_mode = "PNG"
    /\ _publish_mode = "SVG"
    /\ pc = "read"
    /\ format = "svg"

\* C10: run one handler at a time, the flags are 'SVG' or 'PNG' and never
\* _draw_mode = 'PNG' with _publish_mode = 'SVG'; the file diag reads is
\* one a tool was asked to write; diag never changes _publish_mode and
\* changes _draw_mode only from 'PNG' to 'SVG' with inkscape detected.
C10_FlagsConsistent ==
    /\ _draw_mode \in Modes
    /\ _publish_mode \in Modes
    /\ ~(_draw_mode = "PNG" /\ _publish_mode = "SVG")
    /\ file_name # "none" => file_name \in asked

C10_DiagWrites ==
    (pc # "idle" \/ pc' # "idle") =>
        /\ _publish_mode' = _publish_mode
        /\ _draw_mode' # _draw_mode =>
              /\ _draw_mode = "PNG"
              /\ _draw_mode' = "SVG"
              /\ _inkscape_available' = "True"

C10_SequentialFlags ==
    []C10_FlagsConsistent /\ [][C10_DiagWrites]_vars

C10_ReadsConvertedFile ==
    /\ "switch" \in done
    /\ "read" \in done
    /\ format = "svg"
    /\ file_name = "diag_name.png"
    /\ _draw_mode = "SVG"
    /\ _publish_mode = "PNG"

====
